---- MODULE Spec2Model ----
(***************************************************************************)
(* Model of mtgleague/models.py: the Match result state machine, the       *)
(* Participant standings counters, the Event date classification over its  *)
(* Stages, and the League membership roles.                                *)
(*                                                                         *)
(* Tables are sequences of rows; a row's primary key is its index.         *)
(* A query without a total order (.first() with no order_by, or order_by   *)
(* with ties) may return any qualifying row.                               *)
(***************************************************************************)
EXTENDS Integers, Sequences, FiniteSets

VARIABLES
    matches,      \* table Match
    stages,       \* table Stage
    memberships,  \* table Membership
    creator,      \* League.creator_id, per league
    today,        \* date.today()
    ret           \* the last call observed: its arguments (a, b), its outcome,
                  \* its value, and for a role change the row as it was (prev)

vars == <<matches, stages, memberships, creator, today, ret>>

\* ---------------------------------------------------------------- bounds
MaxMatches == 1
NumParticipants == 2
MaxWins == 2
MaxStages == 2
NumEvents == 2
MaxDate == 3
MaxMemberships == 2
NumUsers == 2
NumLeagues == 1

\* ------------------------------------------------------------- constants
NULL == 0           \* a nullable column holding no value; row ids start at 1
NoCount == -1       \* a nullable Integer column (p1_wins, p2_wins, draws) holding no value
WinThreshold == 2   \* "if p1_wins >= 2" / "if p2_wins >= 2"

Participants == 1..NumParticipants
Wins == 0..MaxWins
Draws == {0, 1}
Events == 1..NumEvents
Dates == 1..MaxDate
Users == 1..NumUsers
Leagues == 1..NumLeagues

NoRet == [op |-> "none", outcome |-> "none", a |-> NULL, b |-> NULL, value |-> NULL]

\* ================================================================= Match

\* Match.__init__: the two participants are stored; every other column is NULL.
MatchInit(p1, p2) ==
    [p1_id |-> p1, p2_id |-> p2, winner_id |-> NULL, loser_id |-> NULL,
     p1_wins |-> NoCount, p2_wins |-> NoCount, draws |-> NoCount,
     timestamp |-> FALSE]

\* A slip of add_results: the p2 branch sets the winner and forgets the loser.
add_results_forgets_loser(m, p1_wins, p2_wins, draws) ==
    LET stored == [m EXCEPT !.p1_wins = p1_wins, !.p2_wins = p2_wins,
                            !.draws = draws, !.timestamp = TRUE]
        after1 == IF p1_wins >= WinThreshold
                  THEN [stored EXCEPT !.winner_id = m.p1_id, !.loser_id = m.p2_id]
                  ELSE stored
    IN  IF p2_wins >= WinThreshold
        THEN [after1 EXCEPT !.winner_id = m.p2_id]
        ELSE after1

\* Match.add_results: the counts and the timestamp are overwritten, then two
\* independent "if" statements run in order (the second is not an "elif"),
\* and winner/loser are assigned only inside them.
add_results(m, p1_wins, p2_wins, draws) ==
    LET stored == [m EXCEPT !.p1_wins = p1_wins, !.p2_wins = p2_wins,
                            !.draws = draws, !.timestamp = TRUE]
        after1 == IF p1_wins >= WinThreshold
                  THEN [stored EXCEPT !.winner_id = m.p1_id, !.loser_id = m.p2_id]
                  ELSE stored
    IN  IF p2_wins >= WinThreshold
        THEN [after1 EXCEPT !.winner_id = m.p2_id, !.loser_id = m.p1_id]
        ELSE after1

\* Participant.get_matches_count
get_matches_count(p) ==
    Cardinality({i \in DOMAIN matches : matches[i].p1_id = p \/ matches[i].p2_id = p})

\* Participant.get_matches_won_count
get_matches_won_count(p) ==
    Cardinality({i \in DOMAIN matches : matches[i].winner_id = p})

\* Participant.get_matches_lost_count
get_matches_lost_count(p) ==
    Cardinality({i \in DOMAIN matches : matches[i].loser_id = p})

\* Participant.match_win_percentage: the quotient won / total as the pair
\* <<won, total>>, or ZeroDivisionError when the participant has no match.
match_win_percentage(p) ==
    LET matches_won == get_matches_won_count(p)
        matches_total == get_matches_count(p)
    IN  IF matches_total = 0
        THEN [outcome |-> "ZeroDivisionError", num |-> 0, den |-> 0]
        ELSE [outcome |-> "ok", num |-> matches_won, den |-> matches_total]

\* Match(stage, participant1, participant2), added to the session and committed.
\* The constructor does not compare the two participants.
CreateMatch ==
    /\ Len(matches) < MaxMatches
    /\ \E p1 \in Participants, p2 \in Participants :
         matches' = Append(matches, MatchInit(p1, p2))
    /\ UNCHANGED <<stages, memberships, creator, today, ret>>

\* match.add_results(p1_wins, p2_wins, draws); the method returns nothing.
AddResults ==
    /\ \E i \in DOMAIN matches, w1 \in Wins, w2 \in Wins, d \in Draws :
         matches' = [matches EXCEPT ![i] = add_results(matches[i], w1, w2, d)]
    /\ UNCHANGED <<stages, memberships, creator, today, ret>>

InitMatch ==
    /\ matches = <<>>
    /\ stages = <<>>
    /\ memberships = <<>>
    /\ creator = [l \in Leagues |-> 1]
    /\ today = 1
    /\ ret = NoRet

NextMatch == CreateMatch \/ AddResults

SpecMatch == InitMatch /\ [][NextMatch]_vars

\* ================================================================= Event

\* Stage.__init__: the dates are stored as given (no comparison of the two).
StageInit(e, start_date, end_date) ==
    [event_id |-> e, start_date |-> start_date, end_date |-> end_date]

\* event.stages: the Stage rows whose event_id is the event's id.
event_stages(e) == {i \in DOMAIN stages : stages[i].event_id = e}

\* self.stages.order_by(Stage.start_date).first(): a row of the event with the
\* least start_date (any of them on a tie), or NULL (None) when there is none.
first_by_start_asc(e) ==
    IF event_stages(e) = {} THEN {NULL}
    ELSE {i \in event_stages(e) :
            \A j \in event_stages(e) : stages[i].start_date <= stages[j].start_date}

\* self.stages.order_by(Stage.start_date.desc()).first(): a row of the event
\* with the greatest start_date (any of them on a tie), or NULL when there is none.
first_by_start_desc(e) ==
    IF event_stages(e) = {} THEN {NULL}
    ELSE {i \in event_stages(e) :
            \A j \in event_stages(e) : stages[i].start_date >= stages[j].start_date}

\* Attribute access on the row a query returned: on None it raises AttributeError.
AttrError == [outcome |-> "AttributeError", value |-> NULL]

\* Event.get_start_date, given the row its query returned
get_start_date(first_stage) ==
    IF first_stage = NULL THEN AttrError
    ELSE [outcome |-> "ok", value |-> stages[first_stage].start_date]

\* Event.get_end_date, given the row its query returned
get_end_date(last_stage) ==
    IF last_stage = NULL THEN AttrError
    ELSE [outcome |-> "ok", value |-> stages[last_stage].end_date]

\* Event.is_past, given the row its query returned
is_past(last_stage) ==
    IF last_stage = NULL THEN AttrError
    ELSE [outcome |-> "ok", value |-> (stages[last_stage].end_date <= today)]

\* Event.in_progress, given the rows its two queries returned
in_progress(first_stage, last_stage) ==
    IF first_stage = NULL \/ last_stage = NULL THEN AttrError
    ELSE [outcome |-> "ok",
          value |-> (stages[first_stage].start_date <= today
                     /\ today <= stages[last_stage].end_date)]

\* Event.is_upcoming, given the row its query returned
is_upcoming(first_stage) ==
    IF first_stage = NULL THEN AttrError
    ELSE [outcome |-> "ok", value |-> (today <= stages[first_stage].start_date)]

Returned(op, e, r) ==
    [op |-> op, outcome |-> r.outcome, a |-> e, b |-> today, value |-> r.value]

\* Stage(event, start_date, end_date), added to the session and committed.
CreateStage ==
    /\ Len(stages) < MaxStages
    /\ \E e \in Events, s \in Dates, d \in Dates :
         stages' = Append(stages, StageInit(e, s, d))
    /\ ret' = NoRet
    /\ UNCHANGED <<matches, memberships, creator, today>>

\* event.get_start_date()
GetStartDate ==
    /\ \E e \in Events : \E f \in first_by_start_asc(e) :
         ret' = Returned("get_start_date", e, get_start_date(f))
    /\ UNCHANGED <<matches, stages, memberships, creator, today>>

\* event.get_end_date()
GetEndDate ==
    /\ \E e \in Events : \E l \in first_by_start_desc(e) :
         ret' = Returned("get_end_date", e, get_end_date(l))
    /\ UNCHANGED <<matches, stages, memberships, creator, today>>

\* event.is_past()
IsPast ==
    /\ \E e \in Events : \E l \in first_by_start_desc(e) :
         ret' = Returned("is_past", e, is_past(l))
    /\ UNCHANGED <<matches, stages, memberships, creator, today>>

\* event.in_progress()
InProgress ==
    /\ \E e \in Events : \E f \in first_by_start_asc(e), l \in first_by_start_desc(e) :
         ret' = Returned("in_progress", e, in_progress(f, l))
    /\ UNCHANGED <<matches, stages, memberships, creator, today>>

\* event.is_upcoming()
IsUpcoming ==
    /\ \E e \in Events : \E f \in first_by_start_asc(e) :
         ret' = Returned("is_upcoming", e, is_upcoming(f))
    /\ UNCHANGED <<matches, stages, memberships, creator, today>>

\* date.today() moves on to the next day.
NextDay ==
    /\ today < MaxDate
    /\ today' = today + 1
    /\ ret' = NoRet
    /\ UNCHANGED <<matches, stages, memberships, creator>>

InitEvent ==
    /\ matches = <<>>
    /\ stages = <<>>
    /\ memberships = <<>>
    /\ creator = [l \in Leagues |-> 1]
    /\ today = 1
    /\ ret = NoRet

NextEvent ==
    CreateStage \/ GetStartDate \/ GetEndDate \/ IsPast \/ InProgress
    \/ IsUpcoming \/ NextDay

SpecEvent == InitEvent /\ [][NextEvent]_vars

\* ================================================================ League

\* Membership.__init__ as add_member calls it: moderator=False, owner=False.
MembershipInit(u, l) ==
    [user_id |-> u, league_id |-> l, moderator |-> FALSE, owner |-> FALSE]

\* Membership.query.filter(and_(league_id == self.id, user == user)).first():
\* a Membership row of that user in that league (the query states no order),
\* or NULL (None) when there is none.
membership_first(l, u) ==
    LET found == {i \in DOMAIN memberships :
                    memberships[i].league_id = l /\ memberships[i].user_id = u}
    IN  IF found = {} THEN {NULL} ELSE found

\* League.add_moderator, the two assignments on the row found
moderator_flags(m) == [m EXCEPT !.moderator = TRUE, !.owner = FALSE]

\* League.add_owner, the two assignments on the row found
owner_flags(m) == [m EXCEPT !.moderator = FALSE, !.owner = TRUE]

\* League.get_moderators: the users of the league's rows with moderator set.
get_moderators(l) ==
    LET moderators == SelectSeq(memberships,
                                LAMBDA m : m.league_id = l /\ m.moderator)
    IN  [k \in DOMAIN moderators |-> moderators[k].user_id]

\* League.get_owners: the users of the league's rows with owner set.
get_owners(l) ==
    LET owners == SelectSeq(memberships, LAMBDA m : m.league_id = l /\ m.owner)
    IN  [k \in DOMAIN owners |-> owners[k].user_id]

\* League.get_members: the users of the league's rows.
get_members(l) ==
    LET members == SelectSeq(memberships, LAMBDA m : m.league_id = l)
    IN  [k \in DOMAIN members |-> members[k].user_id]

\* A slip of editable_by_user: the owners are consulted instead of the moderators.
editable_by_owner(l, u) ==
    u = creator[l] \/ \E k \in DOMAIN get_owners(l) : get_owners(l)[k] = u

\* League.editable_by_user
editable_by_user(l, u) ==
    u = creator[l] \/ \E k \in DOMAIN get_moderators(l) : get_moderators(l)[k] = u

\* league.add_member(user): a row is inserted; nothing is looked up first.
AddMember ==
    /\ Len(memberships) < MaxMemberships
    /\ \E l \in Leagues, u \in Users :
         /\ memberships' = Append(memberships, MembershipInit(u, l))
         /\ ret' = [op |-> "add_member", outcome |-> "ok", a |-> l, b |-> u,
                    value |-> Len(memberships) + 1]
    /\ UNCHANGED <<matches, stages, creator, today>>

\* league.add_moderator(user): on None the first assignment raises
\* AttributeError and nothing is committed.
AddModerator ==
    /\ \E l \in Leagues, u \in Users : \E i \in membership_first(l, u) :
         IF i = NULL
         THEN /\ ret' = [op |-> "add_moderator", outcome |-> "AttributeError",
                         a |-> l, b |-> u, value |-> NULL]
              /\ UNCHANGED memberships
         ELSE /\ memberships' =
                    [memberships EXCEPT ![i] = moderator_flags(memberships[i])]
              /\ ret' = [op |-> "add_moderator", outcome |-> "ok",
                         a |-> l, b |-> u, value |-> i,
                         prev |-> memberships[i]]
    /\ UNCHANGED <<matches, stages, creator, today>>

\* league.add_owner(user): on None the first assignment raises AttributeError
\* and nothing is committed.
AddOwner ==
    /\ \E l \in Leagues, u \in Users : \E i \in membership_first(l, u) :
         IF i = NULL
         THEN /\ ret' = [op |-> "add_owner", outcome |-> "AttributeError",
                         a |-> l, b |-> u, value |-> NULL]
              /\ UNCHANGED memberships
         ELSE /\ memberships' =
                    [memberships EXCEPT ![i] = owner_flags(memberships[i])]
              /\ ret' = [op |-> "add_owner", outcome |-> "ok",
                         a |-> l, b |-> u, value |-> i,
                         prev |-> memberships[i]]
    /\ UNCHANGED <<matches, stages, creator, today>>

\* League.__init__ stores the creator; the leagues exist before any membership.
InitLeague ==
    /\ matches = <<>>
    /\ stages = <<>>
    /\ memberships = <<>>
    /\ creator \in [Leagues -> Users]
    /\ today = 1
    /\ ret = NoRet

NextLeague == AddMember \/ AddModerator \/ AddOwner

SpecLeague == InitLeague /\ [][NextLeague]_vars

\* ================================================================ claims

\* ---- Match (SpecMatch)

\* C1: a match's winner is non-null if and only if the stored p1_wins >= 2 or
\* the stored p2_wins >= 2; so add_results with sub-threshold counts on a
\* resolved match makes it unplayed again (winner and loser null).
C1_WinnerIffThreshold ==
    \A i \in DOMAIN matches :
        (matches[i].winner_id # NULL)
            <=> (matches[i].p1_wins >= WinThreshold \/ matches[i].p2_wins >= WinThreshold)

\* C2: after add_results with p1_wins >= 2 and p2_wins >= 2 the winner is
\* participant1 and the loser is participant2.
C2_P1Priority ==
    \A i \in DOMAIN matches :
        (matches[i].p1_wins >= WinThreshold /\ matches[i].p2_wins >= WinThreshold)
            => (matches[i].winner_id = matches[i].p1_id
                /\ matches[i].loser_id = matches[i].p2_id)

\* C3: winner and loser are both null or both set; when set they are the
\* match's own two participants, one each; a match on which add_results has
\* not run has both null.
C3_WinnerLoserArePlayers ==
    \A i \in DOMAIN matches :
        /\ \/ matches[i].winner_id = NULL /\ matches[i].loser_id = NULL
           \/ matches[i].winner_id = matches[i].p1_id
                /\ matches[i].loser_id = matches[i].p2_id
           \/ matches[i].winner_id = matches[i].p2_id
                /\ matches[i].loser_id = matches[i].p1_id
        /\ ~matches[i].timestamp
             => (matches[i].winner_id = NULL /\ matches[i].loser_id = NULL)

\* C3 witness: add_results ran both branches on a match between two different
\* participants, and winner and loser are the two of them.
C3_Witness ==
    \E i \in DOMAIN matches :
        /\ matches[i].timestamp
        /\ matches[i].p1_id # matches[i].p2_id
        /\ matches[i].p1_wins >= WinThreshold
        /\ matches[i].p2_wins >= WinThreshold
        /\ matches[i].winner_id = matches[i].p2_id
        /\ matches[i].loser_id = matches[i].p1_id

\* C4: for every participant, matches won + matches lost <= matches played,
\* and with at least one match the win percentage won/played lies in [0, 1].
C4_WonPlusLostAtMostPlayed ==
    \A p \in Participants :
        /\ get_matches_won_count(p) + get_matches_lost_count(p) <= get_matches_count(p)
        /\ match_win_percentage(p).outcome = "ok"
             => /\ 0 <= match_win_percentage(p).num
                /\ match_win_percentage(p).num <= match_win_percentage(p).den

\* ---- Event (SpecEvent)

StagesValid(e) ==
    \A i \in event_stages(e) : stages[i].start_date <= stages[i].end_date

MinStartDate(e) ==
    CHOOSE d \in Dates :
        /\ \E i \in event_stages(e) : stages[i].start_date = d
        /\ \A i \in event_stages(e) : d <= stages[i].start_date

MaxEndDate(e) ==
    CHOOSE d \in Dates :
        /\ \E i \in event_stages(e) : stages[i].end_date = d
        /\ \A i \in event_stages(e) : d >= stages[i].end_date

ExactlyOne(x, y, z) ==
    \/ x /\ ~y /\ ~z
    \/ ~x /\ y /\ ~z
    \/ ~x /\ ~y /\ z

\* C5: for an event with at least one stage, each with start_date <= end_date,
\* get_start_date returns the least start_date of its stages and get_end_date
\* the greatest end_date of its stages.  Where several stages share the start
\* date the query sorts on, the claim is given the benefit of the doubt: it
\* counts as met when one of the rows the query may return gives that date.
C5_MinStartMaxEnd ==
    (/\ ret.op \in {"get_start_date", "get_end_date"}
     /\ event_stages(ret.a) # {}
     /\ StagesValid(ret.a))
        => /\ ret.outcome = "ok"
           /\ ret.op = "get_start_date" => ret.value = MinStartDate(ret.a)
           /\ ret.op = "get_end_date"
                => \/ ret.value = MaxEndDate(ret.a)
                   \/ \E l \in first_by_start_desc(ret.a) :
                        get_end_date(l).value = MaxEndDate(ret.a)

\* C6: for an event with at least one stage, each with start_date <= end_date:
\* when today is neither the event's start date nor its end date, exactly one
\* of is_past, is_upcoming, in_progress is true; when today is the end date,
\* in_progress and is_past are both true.  The event's dates are those of C5
\* (least start_date, greatest end_date), and as in C5 a tie in the sorted
\* column is resolved in the claim's favour.
C6_ExactlyOnePhase ==
    \A e \in Events :
        (event_stages(e) # {} /\ StagesValid(e))
            => \E f \in first_by_start_asc(e), l \in first_by_start_desc(e) :
                 /\ (today # MinStartDate(e) /\ today # MaxEndDate(e))
                      => ExactlyOne(is_past(l).value, is_upcoming(f).value,
                                    in_progress(f, l).value)
                 /\ today = MaxEndDate(e)
                      => (in_progress(f, l).value /\ is_past(l).value)

\* C9: on an event without stages get_start_date and get_end_date end in
\* EmptyCollectionError.
C9_EmptyCollectionError ==
    (/\ ret.op \in {"get_start_date", "get_end_date"}
     /\ event_stages(ret.a) = {})
        => ret.outcome = "EmptyCollectionError"

\* ---- League (SpecLeague)

HoldsMembership(l, u) ==
    \E i \in DOMAIN memberships :
        memberships[i].league_id = l /\ memberships[i].user_id = u

HoldsModeratorMembership(l, u) ==
    \E i \in DOMAIN memberships :
        /\ memberships[i].league_id = l
        /\ memberships[i].user_id = u
        /\ memberships[i].moderator

\* C7: editable_by_user(league, user) is true exactly when the user is the
\* league's creator or holds a membership of the league with moderator set;
\* right after a successful add_moderator(league, user) it is true for that
\* user; it is false for a non-creator without a membership.
C7_EditableIffCreatorOrModerator ==
    /\ \A l \in Leagues, u \in Users :
         /\ editable_by_user(l, u) <=> (u = creator[l] \/ HoldsModeratorMembership(l, u))
         /\ (u # creator[l] /\ ~HoldsMembership(l, u)) => ~editable_by_user(l, u)
    /\ (ret.op = "add_moderator" /\ ret.outcome = "ok")
         => editable_by_user(ret.a, ret.b)

\* C7 witness: a non-creator added as a member was then made moderator and
\* may edit the league.
C7_Witness ==
    /\ ret.op = "add_moderator"
    /\ ret.outcome = "ok"
    /\ ret.b # creator[ret.a]
    /\ ~ret.prev.moderator
    /\ editable_by_user(ret.a, ret.b)

\* C8: there is at most one membership per (user, league): add_member for a
\* pair that already has one fails with DuplicateMembershipError and adds no row.
C8_AtMostOneMembership ==
    /\ \A i, j \in DOMAIN memberships :
         (/\ memberships[i].league_id = memberships[j].league_id
          /\ memberships[i].user_id = memberships[j].user_id) => i = j
    /\ (/\ ret.op = "add_member"
        /\ \E i \in 1..(Len(memberships) - 1) :
             memberships[i].league_id = ret.a /\ memberships[i].user_id = ret.b)
         => ret.outcome = "DuplicateMembershipError"

\* C10: no membership has moderator and owner both set; add_moderator leaves
\* the row it found with moderator set and owner clear, add_owner leaves the
\* row it found with owner set and moderator clear; so a non-creator who is
\* made owner (a moderator before or not) is not editable_by_user afterwards.
C10_NeverModeratorAndOwner ==
    /\ \A i \in DOMAIN memberships :
         ~(memberships[i].moderator /\ memberships[i].owner)
    /\ (ret.op = "add_moderator" /\ ret.outcome = "ok")
         => (memberships[ret.value].moderator /\ ~memberships[ret.value].owner)
    /\ (ret.op = "add_owner" /\ ret.outcome = "ok")
         => /\ memberships[ret.value].owner
            /\ ~memberships[ret.value].moderator
            /\ ret.b # creator[ret.a] => ~editable_by_user(ret.a, ret.b)

====
